---- MODULE Spec2Model ----
(***************************************************************************)
(* picture-tool (src/main.rs): batch conversion of the images of a folder  *)
(* to a 4:5 aspect ratio and re-encoding as JPEG under a size ceiling.     *)
(*                                                                         *)
(* A file name is the sequence of its dot-separated segments, so           *)
(* "a_processed.tmp.jpg" is <<"a_processed", "tmp", "jpg">>; all files of  *)
(* a run live in one directory.  The file system is a map from names to    *)
(* inodes and a map from inodes to contents, so that a rename moves a file *)
(* that another worker still writes through its open handle.               *)
(***************************************************************************)
EXTENDS Integers, Sequences, FiniteSets, TLC

VARIABLES
    args,             \* Args: mode, quality, max_size (fixed for the run)
    image_files,      \* the paths collect_image_files returned
    fs,               \* name -> inode number, 0 when the name does not exist
    inode,            \* inode number -> content
    pc,               \* per input file: position of its closure / process_image
    img,              \* per input file: decoded dimensions and the transform's result
    quality,          \* per input file: save_with_size_limit's `quality`
    file_size,        \* per input file: save_with_size_limit's `file_size`
    handle,           \* per input file: inode of the File save_jpeg holds open, 0 if none
    ret,              \* per input file: what process_image returned
    log,              \* per input file: history of the search's file operations
    success_count,
    failed_count,
    processed_count

vars == <<args, image_files, fs, inode, pc, img, quality, file_size, handle,
          ret, log, success_count, failed_count, processed_count>>

----------------------------------------------------------------------------
(* Bounds of the model *)

\* encoder outputs are k half-megabytes, k in 1..MaxSize
MaxSize == 5
\* --max-size ranges over 1..MaxMB
MaxMB == 2
\* image widths and heights range over 1..MaxDim and a few larger values
MaxDim == 12

----------------------------------------------------------------------------
(* Program constants *)

MIN_QUALITY == 60
QUALITY_STEP == 5
MB == 1024 * 1024

Abs(n) == IF n < 0 THEN -n ELSE n
Min(a, b) == IF a < b THEN a ELSE b
Max(a, b) == IF a > b THEN a ELSE b

\* u8::saturating_sub
SaturatingSub(a, b) == IF a >= b THEN a - b ELSE 0

----------------------------------------------------------------------------
(* Paths *)

\* str::to_lowercase on the extensions that occur
ToLower(s) ==
    CASE s = "JPG" -> "jpg"
      [] s = "PNG" -> "png"
      [] OTHER -> s

\* Path::extension: the part after the last dot, "" when there is none
extension(p) == IF Len(p) >= 2 THEN p[Len(p)] ELSE ""

\* Path::file_stem: the name without its last dot-separated part
file_stem(p) == IF Len(p) >= 2 THEN SubSeq(p, 1, Len(p) - 1) ELSE p

is_supported_image(p) ==
    /\ Len(p) >= 2
    /\ ToLower(extension(p)) \in {"jpg", "jpeg", "png", "webp"}

\* format!("{}_processed.jpg", stem) joined to the parent; <<>> stands for Err
generate_output_path(p) ==
    LET stem == file_stem(p)
    IN  IF Len(p) = 0
        THEN <<>>
        ELSE SubSeq(stem, 1, Len(stem) - 1)
               \o <<stem[Len(stem)] \o "_processed">> \o <<"jpg">>

\* Path::with_extension("tmp.jpg")
with_tmp_extension(p) == file_stem(p) \o <<"tmp", "jpg">>

temp_path(p) == with_tmp_extension(generate_output_path(p))

A_JPG == <<"a", "jpg">>
A_PNG == <<"a", "png">>
AP_JPG == <<"a_processed", "jpg">>
APT_JPG == <<"a_processed", "tmp", "jpg">>
B_JPG == <<"b", "JPG">>
NOTES == <<"notes", "txt">>

Universe == {A_JPG, A_PNG, AP_JPG, APT_JPG, B_JPG, NOTES}

\* every name a run over files of Universe can touch
AllPaths ==
    Universe
      \cup {generate_output_path(p) : p \in {u \in Universe : is_supported_image(u)}}
      \cup {temp_path(p) : p \in {u \in Universe : is_supported_image(u)}}

\* the directory listings of the parallel runs
Listings ==
    { {A_JPG, B_JPG, NOTES}, {A_JPG, A_PNG}, {A_JPG, AP_JPG}, {A_JPG, APT_JPG} }

collect_image_files(dir) == {p \in dir : is_supported_image(p)}

----------------------------------------------------------------------------
(* Aspect-ratio transform.  target_ratio = 4/5; the f64 arithmetic is done *)
(* exactly in integers: h * 0.8 never has fractional part 1/2, w / 0.8 is   *)
(* exactly 1.25 w, and f64::round rounds half away from zero.               *)

\* (current_ratio - target_ratio).abs() < 0.001
near_target(w, h) == 1000 * Abs(5 * w - 4 * h) < 5 * h

\* current_ratio > target_ratio
too_wide(w, h) == 5 * w > 4 * h

\* (height as f64 * target_ratio).round() as u32
round_times_ratio(h) == (4 * h + 2) \div 5

\* variant: truncation instead of rounding
trunc_div_ratio(w) == (5 * w) \div 4

\* (width as f64 / target_ratio).round() as u32
round_div_ratio(w) == (5 * w + 2) \div 4

\* the window convert_aspect_ratio_crop hands to crop_imm
crop_window(w, h) ==
    LET cw == IF too_wide(w, h) THEN round_times_ratio(h) ELSE w
        ch == IF too_wide(w, h) THEN h ELSE round_div_ratio(w)
    IN  [x |-> SaturatingSub(w, cw) \div 2, y |-> SaturatingSub(h, ch) \div 2,
         width |-> cw, height |-> ch]

\* DynamicImage::crop_imm clamps the window to the image
crop_imm(w, h, win) ==
    LET x == Min(win.x, w)
        y == Min(win.y, h)
    IN  [x |-> x, y |-> y,
         width |-> Min(win.width, w - x), height |-> Min(win.height, h - y)]

\* the image returned as it is
unchanged(w, h) == [x |-> 0, y |-> 0, width |-> w, height |-> h]

convert_aspect_ratio_crop(w, h) ==
    IF near_target(w, h)
    THEN unchanged(w, h)
    ELSE crop_imm(w, h, crop_window(w, h))

\* canvas dimensions and the offset at which the image is overlaid
convert_aspect_ratio_pad(w, h) ==
    IF near_target(w, h)
    THEN unchanged(w, h)
    ELSE LET nw == IF too_wide(w, h) THEN w ELSE round_times_ratio(h)
             nh == IF too_wide(w, h) THEN round_div_ratio(w) ELSE h
         IN  [x |-> SaturatingSub(nw, w) \div 2, y |-> SaturatingSub(nh, h) \div 2,
              width |-> nw, height |-> nh]

\* process_image's match on args.mode
convert(mode, w, h) ==
    IF mode = "Crop" THEN convert_aspect_ratio_crop(w, h)
    ELSE convert_aspect_ratio_pad(w, h)

\* the rectangle the chosen branch computed: the crop window before crop_imm
\* clamps it, or the canvas and the overlay offset
requested(mode, w, h) ==
    IF mode = "Crop" /\ ~near_target(w, h) THEN crop_window(w, h)
    ELSE convert(mode, w, h)

----------------------------------------------------------------------------
(* File contents *)

UniverseSeq == <<A_JPG, A_PNG, AP_JPG, APT_JPG, B_JPG, NOTES>>

\* the inode a file of the listing has when the run starts
InitialInode(p) == CHOOSE i \in 1..Len(UniverseSeq) : UniverseSeq[i] = p

Inodes == 1..(Len(UniverseSeq) + 2)

Free == [kind |-> "free", by |-> <<>>, q |-> 0, size |-> 0, dim |-> <<0, 0>>]

\* a file present before the run; kind "junk" is one no decoder accepts
Original(p, valid, d) ==
    [kind |-> IF valid THEN "orig" ELSE "junk", by |-> p, q |-> 0,
     size |-> MB \div 2, dim |-> d]

\* File::create has truncated the file and worker f has written part of it
Partial(f, q) == [kind |-> "partial", by |-> f, q |-> q, size |-> 0, dim |-> <<0, 0>>]

\* the complete output of one encode attempt of worker f at quality q
Jpeg(f, q, s, d) == [kind |-> "jpeg", by |-> f, q |-> q, size |-> s, dim |-> d]

\* bytes of two writers interleaved in one file
Mixed == [kind |-> "mixed", by |-> <<>>, q |-> 0, size |-> 0, dim |-> <<0, 0>>]

\* sizes the encoder can produce
Sizes == {k * (MB \div 2) : k \in 1..MaxSize}

\* what fs::metadata can report for a file with content c
MetadataLen(c) ==
    IF c.kind \in {"partial", "mixed"} THEN {0} \cup Sizes ELSE {c.size}

\* image::open succeeds on content c
Decodable(c) == c.kind \in {"orig", "jpeg"}

NoImage == [w |-> 0, h |-> 0, win |-> unchanged(0, 0), out |-> unchanged(0, 0)]
\* Option<u8>::None of ProcessResult.final_quality
None == -1

\* process_image's result: the search's (size, quality) and the quality reported
NoResult == [status |-> "none", size |-> 0, quality |-> 0, final_quality |-> None]
ErrResult == [status |-> "err", size |-> 0, quality |-> 0, final_quality |-> None]
OkResult(s, q, q0) ==
    [status |-> "ok", size |-> s, quality |-> q,
     final_quality |-> IF q < q0 THEN q ELSE None]

\* inode i is reachable through a name of f_s or an open handle of h
Referenced(i, f_s, h) ==
    \/ \E p \in DOMAIN f_s : f_s[p] = i
    \/ \E w \in DOMAIN h : h[w] = i

\* inode table after the names became f_s and the handles h: what nothing
\* refers to any more is released
Release(ino, f_s, h) ==
    [i \in Inodes |-> IF Referenced(i, f_s, h) THEN ino[i] ELSE Free]

FreshInode == CHOOSE i \in Inodes : /\ ~Referenced(i, fs, handle)
                                    /\ \A j \in Inodes : ~Referenced(j, fs, handle) => i <= j

max_size_bytes == args.max_size * MB

----------------------------------------------------------------------------
(* Initial states *)

InitWith(dirs, qualities, ceilings, modes, dims) ==
    \E dir \in dirs, q0 \in qualities, m \in ceilings, mode \in modes, d \in dims :
      \E bad \in SUBSET collect_image_files(dir) :
        /\ args = [mode |-> mode, quality |-> q0, max_size |-> m]
        /\ image_files = collect_image_files(dir)
        /\ fs = [p \in AllPaths |-> IF p \in dir THEN InitialInode(p) ELSE 0]
        /\ inode = [i \in Inodes |->
                      IF i <= Len(UniverseSeq) /\ UniverseSeq[i] \in dir
                      THEN Original(UniverseSeq[i], UniverseSeq[i] \notin bad, d)
                      ELSE Free]
        /\ pc = [f \in collect_image_files(dir) |-> "queued"]
        /\ img = [f \in collect_image_files(dir) |-> NoImage]
        /\ quality = [f \in collect_image_files(dir) |-> 0]
        /\ file_size = [f \in collect_image_files(dir) |-> 0]
        /\ handle = [f \in collect_image_files(dir) |-> 0]
        /\ ret = [f \in collect_image_files(dir) |-> NoResult]
        /\ log = [f \in collect_image_files(dir) |-> <<>>]
        /\ success_count = 0
        /\ failed_count = 0
        /\ processed_count = 0

----------------------------------------------------------------------------
(* save_with_size_limit's loop *)

\* variant: the exit test with the comparison strict
size_below_or_floor(size, q) == size < max_size_bytes \/ q <= MIN_QUALITY

\* the loop's exit test
size_ok_or_floor(size, q) == size <= max_size_bytes \/ q <= MIN_QUALITY

\* variant: the step without the floor
next_quality_no_floor(q) == SaturatingSub(q, QUALITY_STEP)

\* variant: lowering by one instead of QUALITY_STEP
next_quality_by_one(q) == Max(SaturatingSub(q, 1), MIN_QUALITY)

\* variant: the floor applied before the step
next_quality_floor_first(q) == SaturatingSub(Max(q, MIN_QUALITY), QUALITY_STEP)

\* quality.saturating_sub(QUALITY_STEP).max(MIN_QUALITY)
next_quality(q) == Max(SaturatingSub(q, QUALITY_STEP), MIN_QUALITY)

\* variant: the Err arm does not count
count_result_ok_only(r) ==
    /\ success_count' = IF r.status = "ok" THEN success_count + 1 ELSE success_count
    /\ failed_count' = failed_count

\* what the closure of par_iter adds to the counters for a result
count_result(r) ==
    /\ success_count' = IF r.status = "ok" THEN success_count + 1 ELSE success_count
    /\ failed_count' = IF r.status = "ok" THEN failed_count ELSE failed_count + 1

\* process_image returns Err through `?`
Fail(f) ==
    /\ ret' = [ret EXCEPT ![f] = ErrResult]
    /\ pc' = [pc EXCEPT ![f] = "report"]

----------------------------------------------------------------------------
(* Actions: the closure run for input file f *)

\* processed_count.fetch_add(1); the worker picks the item up
Start(f) ==
    /\ pc[f] = "queued"
    /\ pc' = [pc EXCEPT ![f] = "open"]
    /\ processed_count' = processed_count + 1
    /\ UNCHANGED <<args, image_files, fs, inode, img, quality, file_size, handle,
                   ret, log, success_count, failed_count>>

\* image::open, the transform, generate_output_path, entry of the search
Open(f) ==
    /\ pc[f] = "open"
    /\ LET c == IF fs[f] = 0 THEN Free ELSE inode[fs[f]]
       IN  IF Decodable(c) /\ generate_output_path(f) # <<>>
           THEN /\ img' = [img EXCEPT ![f] =
                             [w |-> c.dim[1], h |-> c.dim[2],
                              win |-> requested(args.mode, c.dim[1], c.dim[2]),
                              out |-> convert(args.mode, c.dim[1], c.dim[2])]]
                /\ quality' = [quality EXCEPT ![f] = args.quality]
                /\ pc' = [pc EXCEPT ![f] = "create"]
                /\ UNCHANGED ret
           ELSE /\ Fail(f)
                /\ UNCHANGED <<img, quality>>
    /\ UNCHANGED <<args, image_files, fs, inode, file_size, handle, log,
                   success_count, failed_count, processed_count>>

\* save_jpeg: File::create(temp_path) truncates an existing file or makes a new one
Create(f) ==
    /\ pc[f] = "create"
    /\ log' = [log EXCEPT ![f] = Append(@, <<"save", quality[f]>>)]
    /\ \/ LET t == temp_path(f)
              i == IF fs[t] = 0 THEN FreshInode ELSE fs[t]
          IN  /\ fs' = [fs EXCEPT ![t] = i]
              /\ inode' = [inode EXCEPT ![i] = Partial(f, quality[f])]
              /\ handle' = [handle EXCEPT ![f] = i]
              /\ pc' = [pc EXCEPT ![f] = "encode"]
              /\ UNCHANGED ret
       \/ /\ Fail(f)
          /\ UNCHANGED <<fs, inode, handle>>
    /\ UNCHANGED <<args, image_files, img, quality, file_size,
                   success_count, failed_count, processed_count>>

\* save_jpeg: the encoder writes through the open file, which is then closed
Encode(f) ==
    /\ pc[f] = "encode"
    /\ LET i == handle[f]
           h == [handle EXCEPT ![f] = 0]
       IN  /\ handle' = h
           /\ \/ \E s \in Sizes :
                   /\ inode' = Release(
                        [inode EXCEPT ![i] =
                           IF inode[i] = Partial(f, quality[f])
                           THEN Jpeg(f, quality[f], s,
                                     <<img[f].out.width, img[f].out.height>>)
                           ELSE Mixed], fs, h)
                   /\ pc' = [pc EXCEPT ![f] = "metadata"]
                   /\ UNCHANGED ret
              \/ /\ inode' = Release(inode, fs, h)
                 /\ Fail(f)
    /\ UNCHANGED <<args, image_files, fs, img, quality, file_size, log,
                   success_count, failed_count, processed_count>>

\* fs::metadata(&temp_path)?.len()
Metadata(f) ==
    /\ pc[f] = "metadata"
    /\ LET t == temp_path(f)
       IN  IF fs[t] = 0
           THEN /\ Fail(f)
                /\ UNCHANGED <<file_size, log>>
           ELSE /\ \E s \in MetadataLen(inode[fs[t]]) :
                     /\ file_size' = [file_size EXCEPT ![f] = s]
                     /\ log' = [log EXCEPT ![f] = Append(@,
                          <<IF s <= max_size_bytes THEN "fits" ELSE "too big",
                            quality[f]>>)]
                /\ pc' = [pc EXCEPT ![f] = "decide"]
                /\ UNCHANGED ret
    /\ UNCHANGED <<args, image_files, fs, inode, img, quality, handle,
                   success_count, failed_count, processed_count>>

\* the size fits or the floor is reached: fs::rename(&temp_path, output_path)
Rename(f) ==
    /\ pc[f] = "decide"
    /\ size_ok_or_floor(file_size[f], quality[f])
    /\ LET t == temp_path(f)
           o == generate_output_path(f)
           n == [fs EXCEPT ![o] = fs[t], ![t] = 0]
       IN  IF fs[t] = 0
           THEN /\ Fail(f)
                /\ UNCHANGED <<fs, inode, log>>
           ELSE /\ fs' = n
                /\ inode' = Release(inode, n, handle)
                /\ log' = [log EXCEPT ![f] = Append(@, <<"rename", quality[f]>>)]
                /\ ret' = [ret EXCEPT ![f] = OkResult(file_size[f], quality[f], args.quality)]
                /\ pc' = [pc EXCEPT ![f] = "report"]
    /\ UNCHANGED <<args, image_files, img, quality, file_size, handle,
                   success_count, failed_count, processed_count>>

\* too large above the floor: fs::remove_file(&temp_path).ok(), lower the quality
Lower(f) ==
    /\ pc[f] = "decide"
    /\ ~size_ok_or_floor(file_size[f], quality[f])
    /\ LET t == temp_path(f)
           n == [fs EXCEPT ![t] = 0]
       IN  /\ fs' = n
           /\ inode' = Release(inode, n, handle)
    /\ log' = [log EXCEPT ![f] = Append(@, <<"remove", quality[f]>>)]
    /\ quality' = [quality EXCEPT ![f] = next_quality(@)]
    /\ pc' = [pc EXCEPT ![f] = "create"]
    /\ UNCHANGED <<args, image_files, img, file_size, handle, ret,
                   success_count, failed_count, processed_count>>

\* the closure's match on process_image's result
Report(f) ==
    /\ pc[f] = "report"
    /\ count_result(ret[f])
    /\ pc' = [pc EXCEPT ![f] = "done"]
    /\ UNCHANGED <<args, image_files, fs, inode, img, quality, file_size, handle,
                   ret, log, processed_count>>

\* any step of the closure run for f
Step(f) ==
    Start(f) \/ Open(f) \/ Create(f) \/ Encode(f) \/ Metadata(f) \/ Rename(f)
      \/ Lower(f) \/ Report(f)

Next ==
    \/ \E f \in image_files : Start(f)
    \/ \E f \in image_files : Open(f)
    \/ \E f \in image_files : Create(f)
    \/ \E f \in image_files : Encode(f)
    \/ \E f \in image_files : Metadata(f)
    \/ \E f \in image_files : Rename(f)
    \/ \E f \in image_files : Lower(f)
    \/ \E f \in image_files : Report(f)

----------------------------------------------------------------------------
(* Specifications *)

\* start qualities and image dimensions of the parallel runs
RunQualities == {55, 63}
RunDims == {<<2000, 1000>>}

\* widths and heights: the small ones, and pairs within 0.001 of 4:5
Dims == 1..MaxDim \cup {160, 161, 200, 201, 802, 803, 1003}

\* parallel runs over the listings
Init == InitWith(Listings, RunQualities, {1}, {"Crop"}, RunDims)
Spec == Init /\ [][Next]_vars

\* one file, every start quality main accepts, every ceiling
InitSearch == InitWith({{A_JPG}}, 1..100, 1..MaxMB, {"Crop"}, RunDims)
SpecSearch == InitSearch /\ [][Next]_vars

\* a worker thread runs its closure to completion
FairSearch == SpecSearch /\ WF_vars(Next)

\* one file of every size, both modes
InitTransform == InitWith({{A_JPG}}, {90}, {1}, {"Crop", "Pad"}, Dims \X Dims)
SpecTransform == InitTransform /\ [][Next]_vars

----------------------------------------------------------------------------
(* Properties *)

\* the qualities of the save_jpeg calls of f's search, in order
RECURSIVE SavedQualities(_)
SavedQualities(l) ==
    IF l = <<>> THEN <<>>
    ELSE IF Head(l)[1] = "save"
         THEN <<Head(l)[2]>> \o SavedQualities(Tail(l))
         ELSE SavedQualities(Tail(l))

Tried(f) == SavedQualities(log[f])
Attempts(f) == Len(Tried(f))

\* ceil(a / b) for b > 0
CeilDiv(a, b) == -((-a) \div b)

OutputContent(f) ==
    IF fs[generate_output_path(f)] = 0 THEN Free
    ELSE inode[fs[generate_output_path(f)]]

AllDone == \A f \in image_files : pc[f] = "done"

\* C1 as stated: a returned outcome has quality <= startQuality, quality >= 60,
\* and size <= ceiling or quality = 60.
C1_OutcomeAsStated ==
    \A f \in image_files :
        ret[f].status = "ok" =>
            /\ ret[f].quality <= args.quality
            /\ ret[f].quality >= MIN_QUALITY
            /\ (ret[f].size <= max_size_bytes \/ ret[f].quality = MIN_QUALITY)

\* C1 amended: a returned outcome has quality <= startQuality,
\* quality >= min(startQuality, 60), and size <= ceiling or quality <= 60.
C1_Outcome ==
    \A f \in image_files :
        ret[f].status = "ok" =>
            /\ ret[f].quality <= args.quality
            /\ ret[f].quality >= Min(args.quality, MIN_QUALITY)
            /\ (ret[f].size <= max_size_bytes \/ ret[f].quality <= MIN_QUALITY)

\* a search that lowered the quality to the floor and returned oversized bytes
C1_Witness ==
    \E f \in image_files :
        /\ ret[f].status = "ok"
        /\ ret[f].size > max_size_bytes
        /\ ret[f].quality = MIN_QUALITY
        /\ args.quality > MIN_QUALITY

\* C2 as stated: a search that returned made at most
\* ceil((startQuality - 60)/5) + 1 attempts.
C2_AttemptsAsStated ==
    \A f \in image_files :
        ret[f].status = "ok" =>
            Attempts(f) <= CeilDiv(args.quality - MIN_QUALITY, QUALITY_STEP) + 1

\* C2 amended: every search ends; it makes at most
\* max(0, ceil((startQuality - 60)/5)) + 1 attempts; oversized bytes are returned
\* as a success, at quality 60 when startQuality >= 60 and at startQuality below.
C2_Terminates ==
    /\ <>[]AllDone
    /\ [](\A f \in image_files :
            /\ Attempts(f) <=
                 Max(0, CeilDiv(args.quality - MIN_QUALITY, QUALITY_STEP)) + 1
            /\ (ret[f].status = "ok" /\ ret[f].size > max_size_bytes
                  => ret[f].quality = Min(args.quality, MIN_QUALITY)))

\* a search that used every attempt of the bound and still returned oversized bytes
C2_Witness ==
    \E f \in image_files :
        /\ pc[f] = "done"
        /\ ret[f].status = "ok"
        /\ ret[f].size > max_size_bytes
        /\ args.quality = 100
        /\ Attempts(f) = 9

\* C3: when the first encode, at startQuality, fits the ceiling, the search makes
\* exactly one attempt, removes and re-creates nothing, and what it returns has
\* quality = startQuality (reported as not lowered).
C3_FirstFits ==
    \A f \in image_files :
        (Len(log[f]) >= 2 /\ log[f][2] = <<"fits", args.quality>>) =>
            /\ log[f][1] = <<"save", args.quality>>
            /\ Attempts(f) = 1
            /\ Len(log[f]) <= 3
            /\ (Len(log[f]) = 3 => log[f][3] = <<"rename", args.quality>>)
            /\ pc[f] \in {"decide", "report", "done"}
            /\ (pc[f] # "decide" =>
                  /\ ret[f].status = "ok"
                  /\ ret[f].quality = args.quality
                  /\ ret[f].size = file_size[f]
                  /\ ret[f].final_quality = None)

\* a finished search whose first encode had exactly the size of the ceiling
C3_Witness ==
    \E f \in image_files :
        /\ pc[f] = "done"
        /\ log[f] = <<<<"save", args.quality>>, <<"fits", args.quality>>,
                      <<"rename", args.quality>>>>
        /\ ret[f].size = max_size_bytes
        /\ args.quality > MIN_QUALITY

\* the values startQuality, startQuality - 5, ... that are at least 60, and 60
StepValues(q0) ==
    {q \in MIN_QUALITY..100 : q0 >= q /\ (q0 - q) % QUALITY_STEP = 0}
      \cup {MIN_QUALITY}

\* C4 as stated: the returned quality is in {startQuality, startQuality-5, ..., 60}
\* and never below 60.
C4_ReturnedAsStated ==
    \A f \in image_files :
        ret[f].status = "ok" =>
            /\ ret[f].quality \in StepValues(args.quality) \cup {args.quality}
            /\ ret[f].quality >= MIN_QUALITY

\* C4 amended: the returned quality is in {startQuality, startQuality-5, ..., 60}
\* when startQuality >= 60 and is startQuality itself when startQuality < 60; the
\* qualities attempted within one search never increase.
C4_Returned ==
    \A f \in image_files :
        /\ ret[f].status = "ok" =>
             ret[f].quality \in
               IF args.quality >= MIN_QUALITY
               THEN StepValues(args.quality) ELSE {args.quality}
        /\ \A k \in 1..(Attempts(f) - 1) : Tried(f)[k + 1] <= Tried(f)[k]
        /\ \A k \in 1..Attempts(f) :
             Tried(f)[k] \in
               IF args.quality >= MIN_QUALITY
               THEN StepValues(args.quality) ELSE {args.quality}

\* a search from a quality off the 5-grid of 60 that returned the floor
C4_Witness ==
    \E f \in image_files :
        /\ ret[f].status = "ok"
        /\ args.quality = 92
        /\ ret[f].quality = MIN_QUALITY
        /\ Tried(f) = <<92, 87, 82, 77, 72, 67, 62, 60>>

\* C5: at the step a search returns (size, quality), the final output path holds
\* the bytes of this worker's encode attempt at that quality, of that size.
C5_Paired ==
    [][\A f \in image_files :
          (ret[f].status = "none" /\ ret'[f].status = "ok") =>
              /\ fs'[generate_output_path(f)] # 0
              /\ inode'[fs'[generate_output_path(f)]] =
                   Jpeg(f, ret'[f].quality, ret'[f].size,
                        <<img[f].out.width, img[f].out.height>>)]_vars

\* C6: a final output path never holds a partially written file.
C6_FinalNeverPartial ==
    \A f \in image_files : OutputContent(f).kind \in {"free", "orig", "junk", "jpeg"}

\* C7: two distinct input files have distinct scratch paths and distinct final
\* output paths.
C7_DistinctPaths ==
    \A f, g \in image_files :
        f # g => /\ temp_path(f) # temp_path(g)
                 /\ generate_output_path(f) # generate_output_path(g)

\* C8: the counters follow the files: processed counts the files picked up,
\* succeeded and failed the files finished by result; after another file failed,
\* a file that is not finished can still take its next step; at completion
\* succeeded + failed = processed = N.
C8_Counted ==
    /\ processed_count = Cardinality({f \in image_files : pc[f] # "queued"})
    /\ success_count =
         Cardinality({f \in image_files : pc[f] = "done" /\ ret[f].status = "ok"})
    /\ failed_count =
         Cardinality({f \in image_files : pc[f] = "done" /\ ret[f].status = "err"})
    /\ \A f, g \in image_files :
         (f # g /\ ret[g].status = "err" /\ pc[f] # "done") => ENABLED Step(f)
    /\ AllDone =>
         /\ success_count + failed_count = processed_count
         /\ processed_count = Cardinality(image_files)

\* a finished run of two files, one failed and one succeeded
C8_Witness ==
    /\ AllDone
    /\ Cardinality(image_files) = 2
    /\ success_count = 1
    /\ failed_count = 1

\* r is h * 0.8 rounded: no tie exists
IsRoundTimes(r, h) == 2 * Abs(5 * r - 4 * h) < 5

\* r is w / 0.8 rounded, a half rounded up
IsRoundDiv(r, w) == -2 < 4 * r - 5 * w /\ 4 * r - 5 * w <= 2

\* C9: Crop never exceeds the input and its window is centered inside the image;
\* Pad is never smaller than the input; one axis is kept, and outside the
\* tolerance the other is the rounded 4:5 value.
C9_Dimensions ==
    \A f \in image_files :
        img[f] # NoImage =>
            LET w == img[f].w
                h == img[f].h
                r == img[f].win
                o == img[f].out
            IN  /\ r.width >= 1 /\ r.height >= 1
                /\ o.width = r.width /\ o.height = r.height
                /\ r.width = w \/ r.height = h
                /\ near_target(w, h) => r.width = w /\ r.height = h
                /\ args.mode = "Crop" =>
                     /\ r.width <= w /\ r.height <= h
                     /\ r.x = (w - r.width) \div 2 /\ r.x + r.width <= w
                     /\ r.y = (h - r.height) \div 2 /\ r.y + r.height <= h
                     /\ o.x = r.x /\ o.y = r.y
                     /\ ~near_target(w, h) =>
                          IF 5 * w > 4 * h
                          THEN r.height = h /\ IsRoundTimes(r.width, h)
                          ELSE r.width = w /\ IsRoundDiv(r.height, w)
                /\ args.mode = "Pad" =>
                     /\ r.width >= w /\ r.height >= h
                     /\ r.x = (r.width - w) \div 2
                     /\ r.y = (r.height - h) \div 2
                     /\ ~near_target(w, h) =>
                          IF 5 * w > 4 * h
                          THEN r.width = w /\ IsRoundDiv(r.height, w)
                          ELSE r.height = h /\ IsRoundTimes(r.width, h)

\* a tall two-column image cropped, its height recomputed on a rounding tie
C9_Witness ==
    \E f \in image_files :
        /\ args.mode = "Crop"
        /\ img[f].w = 2 /\ img[f].h = 7
        /\ img[f].out = [x |-> 0, y |-> 2, width |-> 2, height |-> 3]

\* C10: every input file keeps its original content throughout the run.
C10_InputsIntact ==
    \A f \in image_files :
        /\ fs[f] # 0
        /\ inode[fs[f]].kind \in {"orig", "junk"}
        /\ inode[fs[f]].by = f

====
